---- MODULE Spec2Model ----
(***************************************************************************)
(* Order lifecycle of the nutriwell backend: createOrder, cancelOrder and  *)
(* updateOrderStatus (src/src/controllers/collection.controller.js) over   *)
(* the products / orders / order_items tables, with the catalog writes of  *)
(* src/src/controllers/product.controller.js that the order code reads.    *)
(*                                                                         *)
(* Every handler is cut at its awaits: the synchronous code between two    *)
(* database calls runs as one action, a prisma.$transaction commits or     *)
(* rolls back as one action (its statements are invisible to the other     *)
(* requests until the commit), and several requests may be between two of  *)
(* their steps at the same time.  Amounts are integer cents.  outbox holds  *)
(* the notifications handed to the mail transport and not yet settled.     *)
(***************************************************************************)
EXTENDS Integers, Sequences, FiniteSets, TLC

VARIABLES product, orders, req, response, now, ops, load, outbox

vars == <<product, orders, req, response, now, ops, load, outbox>>

----------------------------------------------------------------------------
(* Bounds of the model *)

MaxStock == 2       \* initial stock of a product is 0..MaxStock
MaxQty == 2         \* requested quantity of an item is 1..MaxQty
MaxItems == 2       \* items of one createOrder request
MaxOps == 2         \* requests and catalog writes started in one behaviour
MaxTime == 1        \* Date.now() readings are 0..MaxTime
NumSlots == 2       \* requests that may be in flight together

----------------------------------------------------------------------------
(* Data *)

Products == {"p1", "p2"}
Users == {"u1", "u2"}

\* req.user.role, as verifyToken reads it from the users table: u2 is an
\* administrator
roleOf == [u \in Users |-> IF u = "u2" THEN "ADMIN" ELSE "CUSTOMER"]
Prices == {1000, 2500}
Names == {"Whey", "Whey Gold"}
Brands == {"Acme", "Apex"}

Statuses == {"PENDING", "PAID", "PROCESSING", "SHIPPED", "DELIVERED",
             "CANCELLED", "REFUNDED"}

DeliveryMethods == {"STORE_PICKUP", "DELIVERY"}

Undefined == "undefined"

Slots == 1..NumSlots

Quantities == 1..MaxQty

Item == [productId : Products, quantity : Quantities]

RECURSIVE SeqsUpTo(_, _)
SeqsUpTo(S, n) ==
    IF n = 0 THEN {<<>>}
    ELSE LET shorter == SeqsUpTo(S, n - 1)
         IN shorter \cup {Append(s, x) : s \in {t \in shorter : Len(t) = n - 1}, x \in S}

\* req.body.items when present: empty, or 1..MaxItems items
ItemLists == SeqsUpTo(Item, MaxItems)

\* req.body.shippingInfo: missing, or an object with a region
ShippingInfos == {Undefined, "Sindh"}

\* item.quantity as a client can send it: the documented minimum of 1 is not
\* enforced by the route
AnyQuantities == -1..MaxQty

AnyItem == [productId : Products, quantity : AnyQuantities]

AnyItemLists == SeqsUpTo(AnyItem, MaxItems)

\* a shippingInfo object that has no region
EmptyObject == "{}"

\* shippingInfo.region as a client can send it: a key of the rate table, the
\* name of no rate, or the name of a property every object inherits
Regions == {"Sindh", "Punjab", "Balochistan", "Khyber Pakhtunkhwa", "default",
            "Gilgit", "constructor"}

AnyShippingInfos == {Undefined, EmptyObject} \cup Regions

Range(s) == {s[i] : i \in 1..Len(s)}

RECURSIVE SumSeq(_)
SumSeq(s) == IF s = <<>> THEN 0 ELSE Head(s) + SumSeq(Tail(s))

RECURSIVE SelectIdx(_, _, _)
\* the elements s[i] with i >= from and i \in keep, in order (Array.filter)
SelectIdx(s, keep, from) ==
    IF from > Len(s) THEN <<>>
    ELSE IF from \in keep THEN <<s[from]>> \o SelectIdx(s, keep, from + 1)
         ELSE SelectIdx(s, keep, from + 1)

----------------------------------------------------------------------------
(* Pure functions of the controller *)

\* Date.now().toString().slice(-7): the last seven decimal digits
OrderNumberWidth == 10000000
generateOrderNumber(t) == t % OrderNumberWidth

shippingRates == [r \in {"Sindh", "Punjab", "Balochistan", "Khyber Pakhtunkhwa", "default"} |->
    CASE r = "Sindh" -> 50
      [] r = "Punjab" -> 100
      [] r = "Balochistan" -> 150
      [] r = "Khyber Pakhtunkhwa" -> 120
      [] r = "default" -> 100]

\* the values a property read of shippingRates can give
JsNumber(n) == [type |-> "number", n |-> n]
JsFunction == [type |-> "function", n |-> 0]
JsUndefined == [type |-> "undefined", n |-> 0]

\* the properties shippingRates inherits from Object.prototype ("toString",
\* "valueOf", "hasOwnProperty" and the others behave as "constructor")
ObjectPrototypeKeys == {"constructor"}

\* shippingRates[region]
shippingRatesGet(region) ==
    IF region \in DOMAIN shippingRates THEN JsNumber(shippingRates[region])
    ELSE IF region \in ObjectPrototypeKeys THEN JsFunction
    ELSE JsUndefined

\* the left operand of || is taken
Truthy(v) == v.type = "function" \/ (v.type = "number" /\ v.n # 0)

calculateShippingFee(deliveryMethod, region) ==
    IF deliveryMethod = "STORE_PICKUP" THEN JsNumber(0)
    ELSE IF Truthy(shippingRatesGet(region))
         THEN shippingRatesGet(region)
         ELSE JsNumber(shippingRates["default"])

\* a table that also lets a paid order be shipped
allowedTransitionsSkipping == [s \in Statuses |->
    CASE s = "PENDING" -> {"PAID", "CANCELLED"}
      [] s = "PAID" -> {"PROCESSING", "REFUNDED", "SHIPPED"}
      [] s = "PROCESSING" -> {"SHIPPED", "CANCELLED"}
      [] s = "SHIPPED" -> {"DELIVERED"}
      [] s = "DELIVERED" -> {}
      [] s = "CANCELLED" -> {}
      [] s = "REFUNDED" -> {}]

\* a table that lets a delivered order be refunded
allowedTransitionsReopening == [s \in Statuses |->
    CASE s = "PENDING" -> {"PAID", "CANCELLED"}
      [] s = "PAID" -> {"PROCESSING", "REFUNDED"}
      [] s = "PROCESSING" -> {"SHIPPED", "CANCELLED"}
      [] s = "SHIPPED" -> {"DELIVERED"}
      [] s = "DELIVERED" -> {"REFUNDED"}
      [] s = "CANCELLED" -> {}
      [] s = "REFUNDED" -> {}]

allowedTransitions == [s \in Statuses |->
    CASE s = "PENDING" -> {"PAID", "CANCELLED"}
      [] s = "PAID" -> {"PROCESSING", "REFUNDED"}
      [] s = "PROCESSING" -> {"SHIPPED", "CANCELLED"}
      [] s = "SHIPPED" -> {"DELIVERED"}
      [] s = "DELIVERED" -> {}
      [] s = "CANCELLED" -> {}
      [] s = "REFUNDED" -> {}]

----------------------------------------------------------------------------
(* Requests *)

NoResponse == [code |-> 0, message |-> "", errors |-> <<>>]

Response(code, message, errors) ==
    [code |-> code, message |-> message, errors |-> errors]

\* a request between two of its steps: where it is, and what it holds
IdleReq ==
    [pc |-> "idle", op |-> "none", request |-> Undefined, local |-> Undefined]

InFlight == {r \in Slots : req[r].pc # "idle"}

\* a request is accepted on the lowest free slot
CanStart(r) ==
    /\ ops < load.maxOps
    /\ Cardinality(InFlight) < load.maxInFlight
    /\ req[r].pc = "idle"
    /\ \A q \in Slots : q < r => req[q].pc # "idle"

\* a response after which the handler goes on awaiting
RespondWithoutEnding(r, op, request, txSteps, res) ==
    /\ req' = req
    /\ response' = [n |-> response.n + 1, op |-> op, request |-> request,
                    txSteps |-> txSteps, res |-> res]

\* res.status(code).json(...): the request ends.  response is the last one
\* sent: its number, the request it answers, and how many statements the
\* request's transaction had run
Respond(r, op, request, txSteps, res) ==
    /\ req' = [req EXCEPT ![r] = IdleReq]
    /\ response' = [n |-> response.n + 1, op |-> op, request |-> request,
                    txSteps |-> txSteps, res |-> res]

\* the request awaits its next database call
Await(r, next) ==
    /\ req' = [req EXCEPT ![r] = next]
    /\ UNCHANGED response

\* sendOrderConfirmationEmail / sendOrderStatusEmail: the message of
\* response n, about the order at position order, which it shows with status
Mail(n, template, order, status) ==
    [n |-> n, template |-> template, order |-> order, status |-> status]

\* a notification handed over before the transaction is known to have committed
notifyBeforeCommit(pending, committed, mail) == pending \cup {mail}

\* the call send...Email(...).catch(...) that follows the await of the
\* transaction or write: it is reached only when that await did not throw
notify(pending, committed, mail) ==
    IF committed THEN pending \cup {mail} ELSE pending

\* sendEmail: transporter.sendMail resolves or rejects; either way the
\* outcome is logged and swallowed, and the notification is settled
sendEmail ==
    /\ \E mail \in outbox, delivered \in BOOLEAN :
        outbox' = outbox \ {mail}
    /\ UNCHANGED <<product, orders, req, response, now, ops, load>>

----------------------------------------------------------------------------
(* The database: the products table and the orders table with its items.   *)
(* An order's id is its position in orders.                                *)

Db(o, p) == [orders |-> o, product |-> p]

\* the lookup without its isActive filter
findManyAnyState(p, productIds) ==
    {id \in Range(productIds) : p[id].exists}

\* prisma.product.findMany({ where: { id: { in: productIds }, isActive: true } })
findManyActive(p, productIds) ==
    {id \in Range(productIds) : p[id].exists /\ p[id].isActive}

\* the insert with the foreign key alone, without the unique index
CanCreateOrderAnyNumber(db, o) ==
    \A i \in 1..Len(o.items) : db.product[o.items[i].productId].exists

\* tx.order.create with nested items: the orders_orderNumber_key unique index
\* and the order_items_productId_fkey foreign key must hold
CanCreateOrder(db, o) ==
    /\ \A i \in 1..Len(db.orders) : db.orders[i].orderNumber # o.orderNumber
    /\ \A i \in 1..Len(o.items) : db.product[o.items[i].productId].exists

orderCreate(db, o) == [db EXCEPT !.orders = Append(@, o)]

\* tx.product.update({ where: { id }, ... }) needs the row to exist
CanUpdateProduct(db, id) == db.product[id].exists

\* a write of the stock of MaxStock units less the quantity, not a decrement
quantityOverwrite(db, id, n) ==
    [db EXCEPT !.product[id].quantity = MaxStock - n]

\* data: { quantity: { decrement: n } }
quantityDecrement(db, id, n) ==
    [db EXCEPT !.product[id].quantity = @ - n]

\* an increment by one unit whatever the quantity
quantityIncrementByOne(db, id, n) ==
    [db EXCEPT !.product[id].quantity = @ + 1]

\* an increment that is skipped
quantityIncrementSkipped(db, id, n) == db

\* data: { quantity: { increment: n } }
quantityIncrement(db, id, n) ==
    [db EXCEPT !.product[id].quantity = @ + n]

\* a cancellation that deletes the row instead of writing the status
statusUpdateDeletingCancelled(db, id, status) ==
    IF status = "CANCELLED"
    THEN [db EXCEPT !.orders = SubSeq(@, 1, id - 1) \o SubSeq(@, id + 1, Len(@))]
    ELSE [db EXCEPT !.orders[id].status = status]

\* a status write that also copies the catalog's names and brands into the items
statusUpdateRefreshingItems(db, id, status) ==
    LET items == db.orders[id].items
        refreshed == [i \in 1..Len(items) |->
                        [productId |-> items[i].productId,
                         productName |-> db.product[items[i].productId].name,
                         productBrand |-> db.product[items[i].productId].brand,
                         quantity |-> items[i].quantity,
                         price |-> items[i].price,
                         subtotal |-> items[i].subtotal]]
    IN [db EXCEPT !.orders[id].status = status, !.orders[id].items = refreshed]

\* prisma.order.update({ where: { id }, data: { status } })
statusUpdate(db, id, status) ==
    [db EXCEPT !.orders[id].status = status]

\* statements run one by one outside a transaction: what was written stays
RollbackKeepsWrites(before, written) == written

\* a callback that throws inside prisma.$transaction: nothing it wrote stays
Rollback(before, written) == before

----------------------------------------------------------------------------
(* createOrder *)

\* req.body of POST /api/orders; hasItems is false when items is missing
CreateBodies ==
    [hasItems : {TRUE}, items : ItemLists, deliveryMethod : DeliveryMethods,
     shippingInfo : ShippingInfos]
    \cup [hasItems : {FALSE}, items : {<<>>}, deliveryMethod : {"STORE_PICKUP"},
          shippingInfo : {Undefined}]

\* req.body with any quantity and any region, and with or without the fields
\* status and userId, which the handler does not read
AnyCreateBodies ==
    [hasItems : {TRUE}, items : AnyItemLists, deliveryMethod : DeliveryMethods,
     shippingInfo : AnyShippingInfos, status : {Undefined, "PAID"},
     userId : {Undefined, "u2"}]
    \cup [hasItems : {FALSE}, items : {<<>>}, deliveryMethod : {"STORE_PICKUP"},
          shippingInfo : {Undefined}, status : {Undefined, "PAID"},
          userId : {Undefined, "u2"}]

\* the bodies the clients of this run send
RequestBodies == IF load.input = "any" THEN AnyCreateBodies ELSE CreateBodies

productIdsOf(items) == [i \in 1..Len(items) |-> items[i].productId]

\* lines 358-377: the ids that findMany did not return, when the lengths differ
missingIdsOf(p, items) ==
    LET productIds == productIdsOf(items)
        foundIds == findManyActive(p, productIds)
    IN SelectIdx(productIds, {i \in 1..Len(productIds) : productIds[i] \notin foundIds}, 1)

productsResolved(p, items) ==
    Cardinality(findManyActive(p, productIdsOf(items))) = Len(items)

\* lines 383-407: one stock error per item whose product has too little stock
stockErrorsOf(p, items) ==
    LET bad == {i \in 1..Len(items) : p[items[i].productId].quantity < items[i].quantity}
        errs == [i \in 1..Len(items) |->
                    [productId |-> items[i].productId,
                     productName |-> p[items[i].productId].name,
                     requested |-> items[i].quantity,
                     available |-> p[items[i].productId].quantity]]
    IN SelectIdx(errs, bad, 1)

itemPrice(p, item) == p[item.productId].price

orderItemsOf(p, items) ==
    [i \in 1..Len(items) |->
        [productId |-> items[i].productId,
         productName |-> p[items[i].productId].name,
         productBrand |-> p[items[i].productId].brand,
         quantity |-> items[i].quantity,
         price |-> itemPrice(p, items[i]),
         subtotal |-> itemPrice(p, items[i]) * items[i].quantity]]

\* shippingInfo?.region
regionOf(shippingInfo) == IF shippingInfo = EmptyObject THEN Undefined ELSE shippingInfo

\* the Decimal that Prisma writes for a number
decimalOf(v) == v.n

\* tx.order.create validates its data: shippingFee and total must be numbers
validOrderData(body) ==
    calculateShippingFee(body.deliveryMethod, regionOf(body.shippingInfo)).type = "number"

\* the order with a total that leaves the shipping fee out
newOrderWithoutFee(p, userId, body, t) ==
    LET orderItems == orderItemsOf(p, body.items)
        subtotal == SumSeq([i \in 1..Len(orderItems) |-> orderItems[i].subtotal])
        shippingFee == decimalOf(calculateShippingFee(body.deliveryMethod,
                                                      regionOf(body.shippingInfo)))
    IN [orderNumber |-> generateOrderNumber(t),
        userId |-> userId,
        status |-> "PENDING",
        subtotal |-> subtotal,
        shippingFee |-> shippingFee,
        tax |-> 0,
        total |-> subtotal,
        items |-> orderItems]

\* the order with the status and the owner that the body names
newOrderFromBody(p, userId, body, t) ==
    LET orderItems == orderItemsOf(p, body.items)
        subtotal == SumSeq([i \in 1..Len(orderItems) |-> orderItems[i].subtotal])
        shippingFee == decimalOf(calculateShippingFee(body.deliveryMethod,
                                                      regionOf(body.shippingInfo)))
        tax == 0
    IN [orderNumber |-> generateOrderNumber(t),
        userId |-> IF body.userId # Undefined THEN body.userId ELSE userId,
        status |-> IF body.status # Undefined THEN body.status ELSE "PENDING",
        subtotal |-> subtotal,
        shippingFee |-> shippingFee,
        tax |-> tax,
        total |-> subtotal + shippingFee + tax,
        items |-> orderItems]

\* lines 380-423 and the data of tx.order.create
newOrderOf(p, userId, body, t) ==
    LET orderItems == orderItemsOf(p, body.items)
        subtotal == SumSeq([i \in 1..Len(orderItems) |-> orderItems[i].subtotal])
        shippingFee == decimalOf(calculateShippingFee(body.deliveryMethod,
                                                      regionOf(body.shippingInfo)))
        tax == 0
    IN [orderNumber |-> generateOrderNumber(t),
        userId |-> userId,
        status |-> "PENDING",
        subtotal |-> subtotal,
        shippingFee |-> shippingFee,
        tax |-> tax,
        total |-> subtotal + shippingFee + tax,
        items |-> orderItems]

\* the checks with the stock looked at before the product lookup is compared
createOrderCheckStockFirst(p, body) ==
    IF ~body.hasItems \/ Len(body.items) = 0
    THEN Response(400, "Order must contain at least one item", <<>>)
    ELSE IF body.deliveryMethod = "DELIVERY" /\ body.shippingInfo = Undefined
    THEN Response(400, "Shipping address is required for delivery orders", <<>>)
    ELSE IF stockErrorsOf(p, body.items) # <<>>
    THEN Response(400, "Some products have insufficient stock", stockErrorsOf(p, body.items))
    ELSE IF ~productsResolved(p, body.items)
    THEN Response(400, "Some products not found or inactive", missingIdsOf(p, body.items))
    ELSE NoResponse

\* lines 342-415: the response of a rejected request, NoResponse when it passes
createOrderCheck(p, body) ==
    IF ~body.hasItems \/ Len(body.items) = 0
    THEN Response(400, "Order must contain at least one item", <<>>)
    ELSE IF body.deliveryMethod = "DELIVERY" /\ body.shippingInfo = Undefined
    THEN Response(400, "Shipping address is required for delivery orders", <<>>)
    ELSE IF ~productsResolved(p, body.items)
    THEN Response(400, "Some products not found or inactive", missingIdsOf(p, body.items))
    ELSE IF stockErrorsOf(p, body.items) # <<>>
    THEN Response(400, "Some products have insufficient stock", stockErrorsOf(p, body.items))
    ELSE NoResponse

\* lines 330-423: the request arrives, is validated against the catalog read
\* by findMany, and its order is prepared with the order number of that time
createOrderRead(r) ==
    /\ CanStart(r)
    /\ \E userId \in Users, body \in RequestBodies, t \in now..MaxTime :
        LET request == [userId |-> userId, body |-> body]
            res == createOrderCheck(product, body)
        IN IF res # NoResponse
           THEN /\ Respond(r, "createOrder", request, 0, res)
                /\ now' = now
           ELSE /\ Await(r, [pc |-> "createTx", op |-> "createOrder",
                             request |-> request,
                             local |-> newOrderOf(product, userId, body, t)])
                /\ now' = t
    /\ ops' = ops + 1
    /\ UNCHANGED <<product, orders, load, outbox>>

RECURSIVE createTxAfter(_, _, _, _)
\* the database as the transaction callback of lines 426-486 sees it after
\* its first k statements: the order insert, then one decrement per item
createTxAfter(db, newOrder, items, k) ==
    IF k = 0 THEN db
    ELSE IF k = 1 THEN orderCreate(db, newOrder)
    ELSE quantityDecrement(createTxAfter(db, newOrder, items, k - 1),
                           items[k - 1].productId, items[k - 1].quantity)

\* statement k of the callback can execute
createTxCan(db, newOrder, items, k) ==
    IF k = 1 THEN CanCreateOrder(db, newOrder)
    ELSE CanUpdateProduct(createTxAfter(db, newOrder, items, k - 1), items[k - 1].productId)

\* lines 426-507: the transaction runs k statements; it commits when all ran,
\* and is rolled back when statement k + 1 throws (a constraint, or the
\* connection, a deadlock or the transaction timeout)
createOrderTx(r) ==
    /\ req[r].pc = "createTx"
    /\ LET items == req[r].request.body.items
           newOrder == req[r].local
           db == Db(orders, product)
           n == Len(items) + 1
       IN \E k \in 0..n :
            /\ k >= 1 => validOrderData(req[r].request.body)
            /\ \A j \in 1..k : createTxCan(db, newOrder, items, j)
            /\ LET written == createTxAfter(db, newOrder, items, k)
                   after == IF k = n THEN written ELSE Rollback(db, written)
               IN /\ orders' = after.orders
                  /\ product' = after.product
                  /\ outbox' = notify(outbox, k = n,
                                      Mail(response.n + 1, "confirmation",
                                           Len(orders) + 1, newOrder.status))
                  /\ IF k = n
                     THEN Respond(r, "createOrder", req[r].request, k,
                                  Response(201, "Order created successfully", <<>>))
                     ELSE Respond(r, "createOrder", req[r].request, k,
                                  Response(500, "Failed to create order", <<>>))
    /\ UNCHANGED <<now, ops, load>>

----------------------------------------------------------------------------
(* Catalog writes of the product controller *)

\* updateProduct: prisma.product.update with a name, a brand, a price or an
\* isActive flag
updateProduct ==
    /\ ops < load.maxOps
    /\ Cardinality(InFlight) < load.maxInFlight
    /\ \E id \in Products :
        /\ product[id].exists
        /\ \/ \E name \in Names : product' = [product EXCEPT ![id].name = name]
           \/ \E brand \in Brands : product' = [product EXCEPT ![id].brand = brand]
           \/ \E price \in Prices : product' = [product EXCEPT ![id].price = price]
           \/ \E isActive \in BOOLEAN : product' = [product EXCEPT ![id].isActive = isActive]
    /\ ops' = ops + 1
    /\ UNCHANGED <<orders, req, response, now, load, outbox>>

\* an order item references the product (order_items_productId_fkey, RESTRICT)
Referenced(id) ==
    \E i \in 1..Len(orders) : \E j \in 1..Len(orders[i].items) :
        orders[i].items[j].productId = id

\* deleteProduct: prisma.product.delete, refused while an order item refers to it
deleteProduct ==
    /\ ops < load.maxOps
    /\ Cardinality(InFlight) < load.maxInFlight
    /\ \E id \in Products :
        /\ product[id].exists
        /\ ~Referenced(id)
        /\ product' = [product EXCEPT ![id].exists = FALSE]
    /\ ops' = ops + 1
    /\ UNCHANGED <<orders, req, response, now, load, outbox>>

----------------------------------------------------------------------------
(* cancelOrder *)

\* req.params.id: the id of a stored order, or one that no order has
OrderIds == 1..(Len(orders) + 1)

\* the checks without the one on the status
cancelOrderCheckAnyStatus(o, id, userId) ==
    IF ~(id \in 1..Len(o))
    THEN Response(404, "Order not found", <<>>)
    ELSE IF o[id].userId # userId
    THEN Response(403, "Not authorized to cancel this order", <<>>)
    ELSE NoResponse

\* the checks with the one on the status before the one on the owner
cancelOrderCheckStatusFirst(o, id, userId) ==
    IF ~(id \in 1..Len(o))
    THEN Response(404, "Order not found", <<>>)
    ELSE IF o[id].status \notin {"PENDING", "PAID"}
    THEN Response(400, "Cannot cancel order with status", <<o[id].status>>)
    ELSE IF o[id].userId # userId
    THEN Response(403, "Not authorized to cancel this order", <<>>)
    ELSE NoResponse

\* the checks with an override for administrators
cancelOrderCheckAdminOverride(o, id, userId) ==
    IF ~(id \in 1..Len(o))
    THEN Response(404, "Order not found", <<>>)
    ELSE IF o[id].userId # userId /\ roleOf[userId] # "ADMIN"
    THEN Response(403, "Not authorized to cancel this order", <<>>)
    ELSE IF o[id].status \notin {"PENDING", "PAID"}
    THEN Response(400, "Cannot cancel order with status", <<o[id].status>>)
    ELSE NoResponse

\* lines 647-668: the response of a rejected request, NoResponse when it passes
cancelOrderCheck(o, id, userId) ==
    IF ~(id \in 1..Len(o))
    THEN Response(404, "Order not found", <<>>)
    ELSE IF o[id].userId # userId
    THEN Response(403, "Not authorized to cancel this order", <<>>)
    ELSE IF o[id].status \notin {"PENDING", "PAID"}
    THEN Response(400, "Cannot cancel order with status", <<o[id].status>>)
    ELSE NoResponse

\* lines 636-668: the request arrives and is checked against the order read
cancelOrderRead(r) ==
    /\ CanStart(r)
    /\ \E id \in OrderIds, userId \in Users :
        LET request == [userId |-> userId, id |-> id]
            res == cancelOrderCheck(orders, id, userId)
        IN IF res # NoResponse
           THEN Respond(r, "cancelOrder", request, 0, res)
           ELSE Await(r, [pc |-> "cancelTx", op |-> "cancelOrder",
                          request |-> request, local |-> orders[id]])
    /\ ops' = ops + 1
    /\ UNCHANGED <<product, orders, now, load, outbox>>

RECURSIVE cancelTxAfter(_, _, _, _)
\* the database as the callback of lines 671-691 sees it after its first k
\* statements: the status write, then one increment per item of the order read
cancelTxAfter(db, id, items, k) ==
    IF k = 0 THEN db
    ELSE IF k = 1 THEN statusUpdate(db, id, "CANCELLED")
    ELSE quantityIncrement(cancelTxAfter(db, id, items, k - 1),
                           items[k - 1].productId, items[k - 1].quantity)

cancelTxCan(db, id, items, k) ==
    IF k = 1 THEN id \in 1..Len(db.orders)
    ELSE CanUpdateProduct(cancelTxAfter(db, id, items, k - 1), items[k - 1].productId)

\* lines 670-712: the transaction commits after all its statements, or is
\* rolled back when statement k + 1 throws
cancelOrderTx(r) ==
    /\ req[r].pc = "cancelTx"
    /\ LET id == req[r].request.id
           items == req[r].local.items
           db == Db(orders, product)
           n == Len(items) + 1
       IN \E k \in 0..n :
            /\ \A j \in 1..k : cancelTxCan(db, id, items, j)
            /\ LET written == cancelTxAfter(db, id, items, k)
                   after == IF k = n THEN written ELSE Rollback(db, written)
               IN /\ orders' = after.orders
                  /\ product' = after.product
                  /\ outbox' = notify(outbox, k = n,
                                      Mail(response.n + 1, "status", id, "CANCELLED"))
                  /\ IF k = n
                     THEN Respond(r, "cancelOrder", req[r].request, k,
                                  Response(200, "Order cancelled successfully", <<>>))
                     ELSE Respond(r, "cancelOrder", req[r].request, k,
                                  Response(500, "Failed to cancel order", <<>>))
    /\ UNCHANGED <<now, ops, load>>

----------------------------------------------------------------------------
(* updateOrderStatus *)

\* req.body.status: a status, or a string that is none
StatusInputs == Statuses \cup {"RETURNED"}

allowedFrom(status) ==
    IF status \in DOMAIN allowedTransitions THEN allowedTransitions[status] ELSE {}

\* lines 727-751: the response of a rejected request, NoResponse when it passes
updateOrderStatusCheck(o, id, status) ==
    IF ~(id \in 1..Len(o))
    THEN Response(404, "Order not found", <<>>)
    ELSE IF status \notin allowedFrom(o[id].status)
    THEN Response(400, "Invalid status transition", <<o[id].status, status>>)
    ELSE NoResponse

\* lines 718-751: the request arrives and is checked against the order read
updateOrderStatusRead(r) ==
    /\ CanStart(r)
    /\ \E id \in OrderIds, status \in StatusInputs :
        LET request == [id |-> id, status |-> status]
            res == updateOrderStatusCheck(orders, id, status)
        IN IF res # NoResponse
           THEN Respond(r, "updateOrderStatus", request, 0, res)
           ELSE Await(r, [pc |-> "updateWrite", op |-> "updateOrderStatus",
                          request |-> request, local |-> orders[id]])
    /\ ops' = ops + 1
    /\ UNCHANGED <<product, orders, now, load, outbox>>

\* lines 753-769: the status is written and the request answered
updateOrderStatusWrite(r) ==
    /\ req[r].pc = "updateWrite"
    /\ LET after == statusUpdate(Db(orders, product), req[r].request.id,
                                  req[r].request.status)
       IN /\ orders' = after.orders
          /\ product' = after.product
    /\ outbox' = notify(outbox, TRUE,
                        Mail(response.n + 1, "status", req[r].request.id,
                             req[r].request.status))
    /\ Respond(r, "updateOrderStatus", req[r].request, 1,
               Response(200, "Order status updated successfully", <<>>))
    /\ UNCHANGED <<now, ops, load>>

----------------------------------------------------------------------------
(* Specifications *)

\* the item lists createOrder accepts: no product twice
AcceptedItemLists ==
    {items \in ItemLists :
        /\ Len(items) > 0
        /\ \A i, j \in 1..Len(items) : i # j => items[i].productId # items[j].productId}

\* an order as createOrder stored it earlier for u1, picked up at the store,
\* in any status the order can have reached since
EarlierOrder(p, items, status) ==
    [newOrderOf(p, "u1",
                [hasItems |-> TRUE, items |-> items,
                 deliveryMethod |-> "STORE_PICKUP", shippingInfo |-> Undefined],
                OrderNumberWidth - 1)
     EXCEPT !.status = status]

InitCatalog ==
    product \in [Products -> [exists : {TRUE}, isActive : {TRUE},
                              name : {"Whey"}, brand : {"Acme"},
                              quantity : 0..MaxStock, price : {1000}]]

InitRequests ==
    /\ req = [r \in Slots |-> IdleReq]
    /\ response = [n |-> 0, op |-> "none", request |-> Undefined, txSteps |-> 0,
                   res |-> NoResponse]
    /\ now = 0
    /\ ops = 0
    /\ outbox = {}

\* no order yet
InitFresh == InitCatalog /\ InitRequests /\ orders = <<>>

\* one order stored earlier
InitStored ==
    /\ InitCatalog
    /\ InitRequests
    /\ \E items \in AcceptedItemLists, status \in Statuses :
        orders = <<EarlierOrder(product, items, status)>>

\* requests overlap: up to NumSlots of them are between two of their steps
Overlapping ==
    load = [maxInFlight |-> NumSlots, maxOps |-> MaxOps, input |-> "documented"]

\* requests do not overlap: each one completes before the next arrives
OneByOne == load = [maxInFlight |-> 1, maxOps |-> MaxOps, input |-> "documented"]

\* one request, with any quantity and any region
AnyInput == load = [maxInFlight |-> 1, maxOps |-> 1, input |-> "any"]

Init == InitFresh /\ Overlapping

InitSeq == InitFresh /\ OneByOne

InitLife == InitStored /\ Overlapping

InitLifeSeq == InitStored /\ OneByOne

InitRaw == InitFresh /\ AnyInput

Next ==
    \/ \E r \in Slots : createOrderRead(r)
    \/ \E r \in Slots : createOrderTx(r)
    \/ \E r \in Slots : cancelOrderRead(r)
    \/ \E r \in Slots : cancelOrderTx(r)
    \/ \E r \in Slots : updateOrderStatusRead(r)
    \/ \E r \in Slots : updateOrderStatusWrite(r)
    \/ updateProduct
    \/ deleteProduct
    \/ sendEmail

\* the requests on stored orders
NextLife ==
    \/ \E r \in Slots : cancelOrderRead(r)
    \/ \E r \in Slots : cancelOrderTx(r)
    \/ \E r \in Slots : updateOrderStatusRead(r)
    \/ \E r \in Slots : updateOrderStatusWrite(r)
    \/ updateProduct
    \/ deleteProduct
    \/ sendEmail

\* createOrder alone
NextCreate ==
    \/ \E r \in Slots : createOrderRead(r)
    \/ \E r \in Slots : createOrderTx(r)
    \/ sendEmail

\* createOrder, cancelOrder, updateOrderStatus and catalog writes, overlapping
Spec == Init /\ [][Next]_vars

\* the same requests, one at a time
SpecSeq == InitSeq /\ [][Next]_vars

\* cancelOrder, updateOrderStatus and catalog writes on a stored order, overlapping
SpecLife == InitLife /\ [][NextLife]_vars

\* the same requests, one at a time
SpecLifeSeq == InitLifeSeq /\ [][NextLife]_vars

\* one createOrder request with any quantity and any region
SpecRaw == InitRaw /\ [][NextCreate]_vars

----------------------------------------------------------------------------
(* Steps, as the properties below speak of them *)

\* the step sends a response
Answered == response'.n = response.n + 1

\* the step starts the handler of a request on slot r, which awaits
Started(r) == req[r].pc = "idle" /\ req'[r].pc # "idle"

\* the step is the arrival of a request: it is answered at once or awaits
Arrived == ops' = ops + 1 /\ (Answered \/ \E r \in Slots : Started(r))

ArrivedOp ==
    IF Answered THEN response'.op ELSE req'[CHOOSE r \in Slots : Started(r)].op

ArrivedRequest ==
    IF Answered THEN response'.request ELSE req'[CHOOSE r \in Slots : Started(r)].request

\* the step ends a request that was awaiting its second database call
Completed(r, op) == req[r].pc # "idle" /\ req[r].op = op /\ req'[r].pc = "idle"

\* the stock of every product is what it was
StockUnchanged == \A p \in Products : product'[p].quantity = product[p].quantity

----------------------------------------------------------------------------
(* C1 *)

\* the transition table of the specification, as pairs
TableEdges ==
    {<<"PENDING", "PAID">>, <<"PENDING", "CANCELLED">>,
     <<"PAID", "PROCESSING">>, <<"PAID", "REFUNDED">>,
     <<"PROCESSING", "SHIPPED">>, <<"PROCESSING", "CANCELLED">>,
     <<"SHIPPED", "DELIVERED">>}

\* what C1 says of the step that answers updateOrderStatus(id, s) on a stored
\* order whose stored status is cur
UpdateAnswerOk(id, s, cur) ==
    IF <<cur, s>> \in TableEdges
    THEN /\ response'.res.code = 200
         /\ orders' = [orders EXCEPT ![id].status = s]
    ELSE /\ response'.res.code = 400
         /\ response'.res.message = "Invalid status transition"
         /\ response'.res.errors = <<cur, s>>
         /\ orders' = orders

----------------------------------------------------------------------------
(* C2 *)

\* the edges C2 allows: the table, and cancelOrder's two
CancelEdges == {<<"PENDING", "CANCELLED">>, <<"PAID", "CANCELLED">>}

\* C2: under every interleaving of cancelOrder and updateOrderStatus on one
\* order, each change of a stored status goes along an edge of the transition
\* table or along PENDING -> CANCELLED or PAID -> CANCELLED.
C2_StatusMovesAlongEdges ==
    [][\A i \in 1..Len(orders) :
        orders'[i].status # orders[i].status
        => <<orders[i].status, orders'[i].status>> \in TableEdges \cup CancelEdges]_vars

----------------------------------------------------------------------------
(* C3 *)

\* C3: in every reachable state the stock of every product is >= 0, also when
\* two createOrder requests for one product overlap and each fits the stock
\* alone but not both.
C3_StockNeverNegative == \A p \in Products : product[p].quantity >= 0

----------------------------------------------------------------------------
(* Requests, as the properties below speak of them *)

\* the request passes the shape checks: items, and an address for a delivery
WellFormed(body) ==
    /\ body.hasItems
    /\ Len(body.items) >= 1
    /\ body.deliveryMethod = "DELIVERY" => body.shippingInfo # Undefined

\* the item's product is in the catalog and active
Sellable(item) == product[item.productId].exists /\ product[item.productId].isActive

\* the item asks for more than the stock of its product
Exceeds(item) == item.quantity > product[item.productId].quantity

RECURSIVE OrderedQuantity(_, _)
\* the units of product p that the items ask for
OrderedQuantity(items, p) ==
    IF items = <<>> THEN 0
    ELSE (IF Head(items).productId = p THEN Head(items).quantity ELSE 0)
         + OrderedQuantity(Tail(items), p)

RECURSIVE ExceedingItems(_)
\* the items that ask for more than the stock, in the order of the request
ExceedingItems(items) ==
    IF items = <<>> THEN <<>>
    ELSE (IF Exceeds(Head(items))
          THEN <<[productId |-> Head(items).productId,
                  productName |-> product[Head(items).productId].name,
                  requested |-> Head(items).quantity,
                  available |-> product[Head(items).productId].quantity]>>
          ELSE <<>>)
         \o ExceedingItems(Tail(items))

\* the step leaves the orders, their items and the stock as they were
NothingPersisted == orders' = orders /\ StockUnchanged

----------------------------------------------------------------------------
(* C4 *)

\* C4: with requests one at a time, a well-formed createOrder request whose
\* items all name active products and ask for at most the stock (equality
\* included) is not rejected, and it succeeds: afterwards the stock of each
\* product is its stock before minus the quantity ordered of it, so the stock
\* of a product that is not in the order is unchanged.
C4_ValidOrderSucceeds ==
    [][/\ (Arrived /\ ArrivedOp = "createOrder" /\ WellFormed(ArrivedRequest.body)
             /\ \A i \in 1..Len(ArrivedRequest.body.items) :
                   /\ Sellable(ArrivedRequest.body.items[i])
                   /\ ~Exceeds(ArrivedRequest.body.items[i]))
          => ~Answered
       /\ \A r \in Slots : Completed(r, "createOrder") =>
            /\ response'.res.code = 201
            /\ \A p \in Products :
                 product'[p].quantity
                   = product[p].quantity - OrderedQuantity(req[r].request.body.items, p)]_vars

----------------------------------------------------------------------------
(* C5 *)

\* what C5 says of the step that handles the request: the insufficient-stock
\* answer with exactly the exceeding items, and nothing written
InsufficientStockAnswer(body) ==
    /\ Answered
    /\ response'.res.code = 400
    /\ response'.res.message = "Some products have insufficient stock"
    /\ response'.res.errors = ExceedingItems(body.items)
    /\ NothingPersisted

\* C5 as stated: every createOrder request with an item that asks for more
\* than its product's stock gets the insufficient-stock answer.
C5_AnyExceedingItemIsReported ==
    [][(Arrived /\ ArrivedOp = "createOrder"
          /\ \E i \in 1..Len(ArrivedRequest.body.items) : Exceeds(ArrivedRequest.body.items[i]))
       => InsufficientStockAnswer(ArrivedRequest.body)]_vars

\* the product lookup returns one product for every item of the request
LookupMatches(items) ==
    Cardinality({id \in {items[i].productId : i \in 1..Len(items)} :
                    product[id].exists /\ product[id].isActive}) = Len(items)

\* C5 amended: a createOrder request that passes the shape checks and whose
\* product lookup returns one active product per item, and that has an item
\* asking for more than its product's stock, fails with the insufficient-stock
\* error listing exactly the exceeding items (product id, requested,
\* available), all of them and not only the first; no order or item is
\* persisted and no stock changes.
C5_StockErrorsAreComplete ==
    [][(Arrived /\ ArrivedOp = "createOrder" /\ WellFormed(ArrivedRequest.body)
          /\ LookupMatches(ArrivedRequest.body.items)
          /\ \E i \in 1..Len(ArrivedRequest.body.items) : Exceeds(ArrivedRequest.body.items[i]))
       => InsufficientStockAnswer(ArrivedRequest.body)]_vars

\* both items of a request were reported, the second one too
C5_Witness ==
    /\ response.op = "createOrder"
    /\ response.res.message = "Some products have insufficient stock"
    /\ Len(response.request.body.items) = 2
    /\ Len(response.res.errors) = 2
    /\ response.res.errors[2].requested > response.res.errors[2].available
    /\ orders = <<>>

----------------------------------------------------------------------------
(* C6 *)

\* the requested ids that are not in the catalog or not active
UnresolvedIds(items) ==
    {items[i].productId : i \in {j \in 1..Len(items) : ~Sellable(items[j])}}

\* what C6 says of the step that handles the request
NotFoundAnswer(body) ==
    /\ Answered
    /\ response'.res.code = 400
    /\ response'.res.message = "Some products not found or inactive"
    /\ Range(response'.res.errors) = UnresolvedIds(body.items)
    /\ NothingPersisted

\* C6 as stated: every createOrder request with a product id that does not
\* resolve to an existing active product gets the not-found-or-inactive answer.
C6_AnyUnresolvedIdIsReported ==
    [][(Arrived /\ ArrivedOp = "createOrder"
          /\ UnresolvedIds(ArrivedRequest.body.items) # {})
       => NotFoundAnswer(ArrivedRequest.body)]_vars

\* C6 amended: a createOrder request that passes the shape checks (items
\* present, a shipping address for a delivery) and names a product id that does
\* not resolve to an existing active product fails with the
\* not-found-or-inactive error listing every such id; no order or item is
\* persisted and no stock changes.
C6_UnresolvedIdsAreReported ==
    [][(Arrived /\ ArrivedOp = "createOrder" /\ WellFormed(ArrivedRequest.body)
          /\ UnresolvedIds(ArrivedRequest.body.items) # {})
       => NotFoundAnswer(ArrivedRequest.body)]_vars

\* of two requested products the inactive one, and only it, was reported
C6_Witness ==
    /\ response.op = "createOrder"
    /\ response.res.message = "Some products not found or inactive"
    /\ Len(response.request.body.items) = 2
    /\ response.res.errors = <<"p2">>
    /\ product["p2"].exists /\ ~product["p2"].isActive
    /\ orders = <<>>

----------------------------------------------------------------------------
(* C7 *)

\* C7: a createOrder whose transaction fails at any statement (the order
\* insert, or the stock decrement of any product) is answered with a failure,
\* and afterwards no order or item of it is stored and every stock, also of the
\* products the transaction had already decremented, is what it was before.
C7_CreateIsAllOrNothing ==
    [][\A r \in Slots : Completed(r, "createOrder") =>
         \/ /\ response'.res.code = 201
            /\ Len(orders') = Len(orders) + 1
            /\ response'.txSteps = Len(req[r].request.body.items) + 1
         \/ /\ response'.res.code = 500
            /\ response'.txSteps <= Len(req[r].request.body.items)
            /\ orders' = orders
            /\ product' = product]_vars

\* the transaction failed after the order insert and a decrement had run
C7_Witness ==
    /\ response.op = "createOrder"
    /\ response.res.code = 500
    /\ response.txSteps = 2
    /\ Len(response.request.body.items) = 2
    /\ orders = <<>>

----------------------------------------------------------------------------
(* C8 *)

\* the amounts of an order add up
AmountsAddUp(o) ==
    /\ o.tax = 0
    /\ o.total = o.subtotal + o.shippingFee + o.tax
    /\ o.subtotal = SumSeq([i \in 1..Len(o.items) |-> o.items[i].subtotal])
    /\ \A i \in 1..Len(o.items) : o.items[i].subtotal = o.items[i].price * o.items[i].quantity

\* C8: every order persisted by createOrder has total = subtotal + shippingFee
\* + tax with tax = 0, subtotal = the sum of its items' subtotals, and for every
\* item subtotal = price * quantity, where price is the catalog price of the
\* product as the product lookup of that call read it: the order prepared at
\* the lookup carries the prices of that moment, and the order stored by the
\* transaction is that order.
C8_AmountsOfStoredOrders ==
    [][/\ \A r \in Slots : (Started(r) /\ req'[r].op = "createOrder") =>
            \A i \in 1..Len(req'[r].local.items) :
                /\ req'[r].local.items[i].productId = req'[r].request.body.items[i].productId
                /\ req'[r].local.items[i].quantity = req'[r].request.body.items[i].quantity
                /\ req'[r].local.items[i].price
                     = product[req'[r].request.body.items[i].productId].price
       /\ \A r \in Slots : (Completed(r, "createOrder") /\ response'.res.code = 201) =>
            orders' = Append(orders, req[r].local)
       /\ \A i \in 1..Len(orders') : AmountsAddUp(orders'[i])]_vars

\* a stored delivery order of two units whose unit price is the one read at
\* the lookup, not the one the catalog has now
C8_Witness ==
    \E i \in 1..Len(orders) :
        /\ orders[i].shippingFee = 50
        /\ orders[i].items[1].quantity = 2
        /\ orders[i].items[1].price = 1000
        /\ product[orders[i].items[1].productId].price = 2500
        /\ orders[i].total = 2050

----------------------------------------------------------------------------
(* C9 *)

\* C9: a cancelOrder call by the owner of an order in status PENDING or PAID
\* is not rejected; its transaction either commits, and then in that one step
\* the status becomes CANCELLED and the stock of each item's product grows by
\* exactly the item's quantity (nothing else changes) and the call succeeds,
\* or it fails at the status write or at an increment, and then neither the
\* status nor any stock has changed.
C9_CancelRestoresStock ==
    [][/\ (Arrived /\ ArrivedOp = "cancelOrder"
             /\ ArrivedRequest.id \in 1..Len(orders)
             /\ orders[ArrivedRequest.id].userId = ArrivedRequest.userId
             /\ orders[ArrivedRequest.id].status \in {"PENDING", "PAID"})
          => ~Answered
       /\ \A r \in Slots : Completed(r, "cancelOrder") =>
            \/ /\ response'.res.code = 200
               /\ orders' = [orders EXCEPT ![req[r].request.id].status = "CANCELLED"]
               /\ \A p \in Products :
                    product'[p] = [product[p] EXCEPT !.quantity =
                        @ + OrderedQuantity(orders[req[r].request.id].items, p)]
            \/ /\ response'.res.code = 500
               /\ orders' = orders
               /\ product' = product]_vars

\* an order of two units of one product and one of the other was cancelled
C9_Witness ==
    /\ response.op = "cancelOrder"
    /\ response.res.code = 200
    /\ orders[response.request.id].status = "CANCELLED"
    /\ Len(orders[response.request.id].items) = 2
    /\ orders[response.request.id].items[1].quantity = 2
    /\ product[orders[response.request.id].items[1].productId].quantity >= 2

----------------------------------------------------------------------------
(* C10 *)

\* what C10 says of the step that handles the request on an order in status cur
CannotCancelAnswer(cur) ==
    /\ Answered
    /\ response'.res.code = 400
    /\ response'.res.message = "Cannot cancel order with status"
    /\ response'.res.errors = <<cur>>
    /\ orders' = orders
    /\ StockUnchanged

\* C10 as stated: every cancelOrder call on an order whose status is not
\* PENDING or PAID is rejected with an error naming the status, whoever calls.
C10_AnyCallerIsToldTheStatus ==
    [][(Arrived /\ ArrivedOp = "cancelOrder"
          /\ ArrivedRequest.id \in 1..Len(orders)
          /\ orders[ArrivedRequest.id].status \notin {"PENDING", "PAID"})
       => CannotCancelAnswer(orders[ArrivedRequest.id].status)]_vars

\* C10 amended: a cancelOrder call by the order's owner on an order whose
\* status is not PENDING or PAID is rejected with an error naming the current
\* status and leaves the status and every product's stock unchanged; so a
\* second cancelOrder after a first one completed fails and does not restore
\* the inventory a second time.
C10_OwnerIsToldTheStatus ==
    [][(Arrived /\ ArrivedOp = "cancelOrder"
          /\ ArrivedRequest.id \in 1..Len(orders)
          /\ orders[ArrivedRequest.id].userId = ArrivedRequest.userId
          /\ orders[ArrivedRequest.id].status \notin {"PENDING", "PAID"})
       => CannotCancelAnswer(orders[ArrivedRequest.id].status)]_vars

\* the second cancelOrder of an order was refused: a first one had restored
\* the stock beyond its initial bound, and the second is told CANCELLED
C10_Witness ==
    /\ response.n = 2
    /\ response.op = "cancelOrder"
    /\ response.res.code = 400
    /\ response.res.errors = <<"CANCELLED">>
    /\ \E p \in Products : product[p].quantity > MaxStock

----------------------------------------------------------------------------
(* C11 *)

\* C11: when two cancelOrder requests for one PENDING or PAID order overlap,
\* the quantity of each item is added back to the stock exactly once: a
\* cancelOrder that completes after another cancelOrder of the same order has
\* succeeded leaves the stock of every product as it is.
C11_OverlappingCancelsRestoreOnce ==
    [][\A r \in Slots :
         (/\ Completed(r, "cancelOrder")
          /\ response.op = "cancelOrder"
          /\ response.res.code = 200
          /\ response.request.id = req[r].request.id)
         => StockUnchanged]_vars

----------------------------------------------------------------------------
(* C12 *)

\* C12: whenever a step leaves an order in status CANCELLED that was not
\* CANCELLED before, whichever operation it is, the stock of each product has
\* grown in that step by the quantity the order holds of it: an
\* updateOrderStatus to CANCELLED restores the inventory as cancelOrder does.
C12_CancelledMeansRestored ==
    [][\A i \in 1..Len(orders) :
         (orders[i].status # "CANCELLED" /\ orders'[i].status = "CANCELLED")
         => \A p \in Products :
              product'[p].quantity
                = product[p].quantity + OrderedQuantity(orders[i].items, p)]_vars

----------------------------------------------------------------------------
(* C13 *)

\* C13: cancelOrder succeeds only when the caller's user id is the order's
\* owning user id: a call by any other user, an administrator included, is
\* rejected as unauthorized whatever the order's status, and leaves the orders
\* and the stock of every product unchanged.
C13_OnlyTheOwnerCancels ==
    [][/\ (Arrived /\ ArrivedOp = "cancelOrder"
             /\ ArrivedRequest.id \in 1..Len(orders)
             /\ orders[ArrivedRequest.id].userId # ArrivedRequest.userId)
          => /\ Answered
             /\ response'.res.code = 403
             /\ response'.res.message = "Not authorized to cancel this order"
             /\ orders' = orders
             /\ StockUnchanged
       /\ \A r \in Slots :
            (Completed(r, "cancelOrder") /\ response'.res.code = 200)
            => orders[req[r].request.id].userId = req[r].request.userId]_vars

\* an administrator who does not own the PENDING order was refused
C13_Witness ==
    /\ response.op = "cancelOrder"
    /\ response.res.code = 403
    /\ roleOf[response.request.userId] = "ADMIN"
    /\ orders[response.request.id].userId # response.request.userId
    /\ orders[response.request.id].status = "PENDING"

----------------------------------------------------------------------------
(* C14 *)

\* the items and the amounts of the stored order are what they were
SnapshotKept(old, new) ==
    /\ new.items = old.items
    /\ new.subtotal = old.subtotal
    /\ new.shippingFee = old.shippingFee
    /\ new.tax = old.tax
    /\ new.total = old.total

\* C14: the product name, brand, unit price and line subtotal stored in an
\* order's items, and the order's subtotal and total, are those captured at
\* creation: no change of a product's name, brand, price or active flag in the
\* catalog, and no step of cancelOrder or updateOrderStatus, changes the items
\* or the amounts of a stored order.
C14_StoredSnapshotIsKept ==
    [][/\ Len(orders') >= Len(orders)
       /\ \A i \in 1..Len(orders) : SnapshotKept(orders[i], orders'[i])]_vars

\* the order was cancelled after its product was renamed, rebranded or
\* repriced: its item still carries the name, brand and price of its creation
C14_Witness ==
    \E i \in 1..Len(orders) :
        /\ orders[i].status = "CANCELLED"
        /\ response.op = "cancelOrder"
        /\ response.res.code = 200
        /\ orders[i].items[1].productName = "Whey"
        /\ orders[i].items[1].productBrand = "Acme"
        /\ orders[i].items[1].price = 1000
        /\ LET p == product[orders[i].items[1].productId]
           IN p.name = "Whey Gold" \/ p.brand = "Apex" \/ p.price = 2500

----------------------------------------------------------------------------
(* C15 *)

\* the step leaves every stored order in its place with its items and amounts;
\* only statuses may differ
RowsKept ==
    /\ Len(orders') >= Len(orders)
    /\ \A i \in 1..Len(orders) : [orders'[i] EXCEPT !.status = orders[i].status] = orders[i]

\* C15: every step of an updateOrderStatus call whose resulting status is not
\* CANCELLED (its arrival, its rejection, its write) leaves the stock of every
\* product unchanged, and no step of cancelOrder or updateOrderStatus removes
\* an order or an order item: the stored orders only grow in number, and the
\* order that a cancelOrder cancels stays stored, with status CANCELLED.
C15_StatusWritesKeepStockAndRows ==
    [][/\ RowsKept
       /\ (Arrived /\ ArrivedOp = "updateOrderStatus") => StockUnchanged
       /\ \A r \in Slots :
            (Completed(r, "updateOrderStatus") /\ req[r].request.status # "CANCELLED")
            => StockUnchanged
       /\ \A r \in Slots :
            (Completed(r, "cancelOrder") /\ response'.res.code = 200)
            => orders' = [orders EXCEPT ![req[r].request.id].status = "CANCELLED"]]_vars

\* after an earlier request on it was answered, an order of two items was
\* cancelled by its owner: it is stored with both items and status CANCELLED
C15_Witness ==
    /\ response.n = 2
    /\ response.op = "cancelOrder"
    /\ response.res.code = 200
    /\ Len(orders) = 1
    /\ Len(orders[1].items) = 2
    /\ orders[1].status = "CANCELLED"

----------------------------------------------------------------------------
(* C16 *)

\* C16: for createOrder, cancelOrder and updateOrderStatus, a notification is
\* dispatched only in the step that answers the request with success, after
\* the state change has committed (the order it is about is stored with the
\* status it shows), and never in a step that rejects the request or reports
\* its failure; when the notification later settles, delivered or not, the
\* response already sent, the orders and the stock are what they were.
C16_NotificationFollowsCommit ==
    [][/\ \A mail \in outbox' \ outbox :
            /\ Answered
            /\ response'.res.code \in {200, 201}
            /\ mail.n = response'.n
            /\ mail.order \in 1..Len(orders')
            /\ orders'[mail.order].status = mail.status
       /\ (Answered /\ response'.res.code >= 400) => outbox' = outbox
       /\ (outbox \ outbox' # {})
            => /\ response' = response
               /\ orders' = orders
               /\ product' = product]_vars

\* the confirmation of a created order has settled: the response is still the
\* success, the order is stored and its units are off the stock
C16_Witness ==
    /\ response.op = "createOrder"
    /\ response.res.code = 201
    /\ outbox = {}
    /\ Len(orders) = 1
    /\ orders[1].status = "PENDING"
    /\ \E p \in Products : product[p].quantity < MaxStock

----------------------------------------------------------------------------
(* C17 *)

\* C17: createOrder accepts only items whose quantity is a positive integer: a
\* request with an item of quantity 0 or less is rejected with a validation
\* error and nothing is persisted, so every stored order item has quantity
\* >= 1 and no step of createOrder increases the stock of a product.
C17_OnlyPositiveQuantities ==
    [][/\ (Arrived /\ ArrivedOp = "createOrder"
             /\ \E i \in 1..Len(ArrivedRequest.body.items) :
                    ArrivedRequest.body.items[i].quantity <= 0)
          => /\ Answered
             /\ response'.res.code = 400
             /\ NothingPersisted
       /\ \A i \in 1..Len(orders') : \A j \in 1..Len(orders'[i].items) :
            orders'[i].items[j].quantity >= 1
       /\ \A r \in Slots : Completed(r, "createOrder") =>
            \A p \in Products : product'[p].quantity <= product[p].quantity]_vars

----------------------------------------------------------------------------
(* C19 *)

\* the fee of the specification's table
TableFee(deliveryMethod, region) ==
    IF deliveryMethod = "STORE_PICKUP" THEN 0
    ELSE CASE region = "Sindh" -> 50
           [] region = "Punjab" -> 100
           [] region = "Balochistan" -> 150
           [] region = "Khyber Pakhtunkhwa" -> 120
           [] OTHER -> 100

\* C19: the shipping fee depends only on (deliveryMethod, region): 0 for
\* STORE_PICKUP whatever the region; for DELIVERY the table value of the
\* region, and the default 100 for every region that is not in the table, a
\* missing region included; the fee computed for every request that passes
\* the checks is this number, and so is the shippingFee of every order that
\* is stored.
C19_FeeFollowsTable ==
    [][/\ \A r \in Slots : (Started(r) /\ req'[r].op = "createOrder") =>
            LET body == req'[r].request.body
            IN calculateShippingFee(body.deliveryMethod, regionOf(body.shippingInfo))
                 = JsNumber(TableFee(body.deliveryMethod, regionOf(body.shippingInfo)))
       /\ \A r \in Slots : (Completed(r, "createOrder") /\ response'.res.code = 201) =>
            LET body == req[r].request.body
            IN orders'[Len(orders')].shippingFee
                 = TableFee(body.deliveryMethod, regionOf(body.shippingInfo))]_vars

----------------------------------------------------------------------------
(* C18 *)

\* the message of the shape check that the request fails
ShapeMessage(body) ==
    IF ~body.hasItems \/ Len(body.items) = 0
    THEN "Order must contain at least one item"
    ELSE "Shipping address is required for delivery orders"

\* C18: createOrder checks in a fixed fail-fast order and the first failing
\* stage alone gives the answer: (1) a request without items, or a delivery
\* without shippingInfo, gets the error of its shape whatever the catalog holds;
\* (2) a request of good shape with a product id that does not resolve gets
\* the not-found-or-inactive error with those ids only, also when an item
\* exceeds the stock; (3) the insufficient-stock error is given only to a
\* request of good shape whose ids all resolve.  Nothing is persisted.
C18_ChecksFailFast ==
    [][(Arrived /\ ArrivedOp = "createOrder") =>
        LET body == ArrivedRequest.body
        IN /\ ~WellFormed(body)
                => /\ Answered
                   /\ response'.res = Response(400, ShapeMessage(body), <<>>)
                   /\ NothingPersisted
           /\ (WellFormed(body) /\ UnresolvedIds(body.items) # {})
                => /\ Answered
                   /\ response'.res.code = 400
                   /\ response'.res.message = "Some products not found or inactive"
                   /\ Range(response'.res.errors) = UnresolvedIds(body.items)
                   /\ NothingPersisted
           /\ (Answered /\ response'.res.message = "Some products have insufficient stock")
                => /\ WellFormed(body)
                   /\ UnresolvedIds(body.items) = {}
                   /\ \E i \in 1..Len(body.items) : Exceeds(body.items[i])]_vars

\* a request named a product that does not resolve and asked of the other
\* product more than its stock: only the first was reported
C18_Witness ==
    /\ response.op = "createOrder"
    /\ response.res.message = "Some products not found or inactive"
    /\ Len(response.request.body.items) = 2
    /\ Len(response.res.errors) = 1
    /\ ~Sellable([productId |-> response.res.errors[1]])
    /\ \E i \in 1..2 :
         /\ response.request.body.items[i].productId # response.res.errors[1]
         /\ Sellable(response.request.body.items[i])
         /\ Exceeds(response.request.body.items[i])
    /\ orders = <<>>

----------------------------------------------------------------------------
(* C20 *)

Terminal == {"DELIVERED", "CANCELLED", "REFUNDED"}

\* C20: with requests one at a time, once the status of an order is DELIVERED,
\* CANCELLED or REFUNDED it never changes again, and a cancelOrder or
\* updateOrderStatus request for that order is refused on arrival and leaves
\* the orders and the stock of every product as they were.
C20_TerminalIsFinal ==
    [][\A i \in 1..Len(orders) : orders[i].status \in Terminal =>
         /\ orders'[i].status = orders[i].status
         /\ (Arrived /\ ArrivedOp \in {"cancelOrder", "updateOrderStatus"}
               /\ ArrivedRequest.id = i)
              => /\ Answered
                 /\ response'.res.code \in {400, 403}
                 /\ orders' = orders
                 /\ StockUnchanged]_vars

\* after an earlier request was answered, a REFUNDED order was asked to be
\* set to PAID: that was refused and the order is still REFUNDED
C20_Witness ==
    /\ response.n = 2
    /\ response.op = "updateOrderStatus"
    /\ response.res.code = 400
    /\ response.res.errors = <<"REFUNDED", "PAID">>
    /\ orders[response.request.id].status = "REFUNDED"

----------------------------------------------------------------------------
(* C21 *)

\* C21: every order stored by createOrder has status PENDING and the
\* authenticated caller as its owning user, whatever the request body holds: a
\* status or userId field of the body has no effect.
C21_NewOrderIsPendingAndOwned ==
    [][\A r \in Slots : (Completed(r, "createOrder") /\ response'.res.code = 201) =>
         /\ Len(orders') = Len(orders) + 1
         /\ orders'[Len(orders')].status = "PENDING"
         /\ orders'[Len(orders')].userId = req[r].request.userId]_vars

\* u1 sent a body with status PAID and userId u2: the stored order is PENDING
\* and belongs to u1
C21_Witness ==
    /\ response.op = "createOrder"
    /\ response.res.code = 201
    /\ response.request.userId = "u1"
    /\ response.request.body.status = "PAID"
    /\ response.request.body.userId = "u2"
    /\ Len(orders) = 1
    /\ orders[1].status = "PENDING"
    /\ orders[1].userId = "u1"

----------------------------------------------------------------------------
(* C22 *)

\* every database call that a request awaits eventually returns or fails
DatabaseAnswers ==
    \A r \in Slots :
        /\ WF_vars(createOrderTx(r))
        /\ WF_vars(cancelOrderTx(r))
        /\ WF_vars(updateOrderStatusWrite(r))

\* no order yet and one unit of every product in stock, requests overlapping
InitStocked == Init /\ \A p \in Products : product[p].quantity = 1

\* the requests of Spec on the stocked catalog, with a database that answers
SpecFair == InitStocked /\ [][Next]_vars /\ DatabaseAnswers

\* C22: every createOrder, cancelOrder and updateOrderStatus request ends
\* with exactly one response, provided each database call returns or fails: a
\* step sends at most one response, it sends one exactly when a request ends
\* (on arrival, or for a request that was awaiting), and every request that
\* awaits eventually ends, whatever notifications are pending: no fairness of
\* the mail transport is assumed.
C22_OneResponsePerRequest ==
    /\ [][/\ response'.n \in {response.n, response.n + 1}
          /\ Answered <=> \/ Arrived /\ \A r \in Slots : ~Started(r)
                          \/ \E r \in Slots : req[r].pc # "idle" /\ req'[r].pc = "idle"
          /\ \A r \in Slots : (req[r].pc # "idle" /\ req'[r].pc # "idle") => req'[r] = req[r]
          /\ Cardinality({r \in Slots : req'[r] # req[r]}) <= 1]_vars
    /\ \A r \in Slots : (req[r].pc # "idle") ~> (req[r].pc = "idle")

\* a request was answered with success while the notification of an earlier
\* one was still pending
C22_Witness ==
    /\ response.n = 2
    /\ response.res.code \in {200, 201}
    /\ \E mail \in outbox : mail.n = 1
    /\ \A r \in Slots : req[r].pc = "idle"

----------------------------------------------------------------------------
(* C23 *)

\* the handlers that move stock: createOrder and cancelOrder
NextOrders ==
    \/ \E r \in Slots : createOrderRead(r)
    \/ \E r \in Slots : createOrderTx(r)
    \/ \E r \in Slots : cancelOrderRead(r)
    \/ \E r \in Slots : cancelOrderTx(r)
    \/ sendEmail

\* one PENDING order stored earlier and one unit of every product in stock,
\* requests overlapping
InitPending ==
    /\ InitLife
    /\ orders[1].status = "PENDING"
    /\ \A p \in Products : product[p].quantity = 1

\* createOrder and cancelOrder, overlapping, with one order stored earlier
SpecOrders == InitPending /\ [][NextOrders]_vars

\* the units of p that the step's committed transaction takes from the stock
\* (createOrder answered 201) or gives back to it (cancelOrder answered 200)
CommittedChange(p) ==
    IF \E r \in Slots : Completed(r, "createOrder") /\ response'.res.code = 201
    THEN 0 - OrderedQuantity(response'.request.body.items, p)
    ELSE IF \E r \in Slots : Completed(r, "cancelOrder") /\ response'.res.code = 200
    THEN OrderedQuantity(orders[response'.request.id].items, p)
    ELSE 0

\* C23: stock changes are relative adjustments with no lost update: whatever
\* requests are in flight and whatever they have read, each step moves the
\* stock of every product by exactly the quantity of the transaction that
\* commits in it (minus the ordered quantity for a committed createOrder, plus
\* the order's quantity for a committed cancelOrder, nothing otherwise), so
\* that over any interleaving the final stock is the initial stock minus the
\* committed creations plus the committed cancellations.
C23_StockMovesByCommittedQuantities ==
    [][\A p \in Products :
          product'[p].quantity = product[p].quantity + CommittedChange(p)]_vars

\* a createOrder has committed on a product while a cancelOrder that read an
\* order of the same product before is still in flight
C23_Witness ==
    /\ response.op = "createOrder"
    /\ response.res.code = 201
    /\ \E r \in Slots, p \in Products :
        /\ req[r].pc = "cancelTx"
        /\ OrderedQuantity(req[r].local.items, p) > 0
        /\ OrderedQuantity(response.request.body.items, p) > 0

----------------------------------------------------------------------------
(* C24 *)

\* an order is stored under the number
NumberTaken(number) == \E i \in 1..Len(orders) : orders[i].orderNumber = number

----------------------------------------------------------------------------
(* C25 *)

\* every product was fully stocked and an earlier createOrder took the units
\* of one order, still PENDING, out of the stock; requests one at a time
InitHeld ==
    /\ InitLifeSeq
    /\ orders[1].status = "PENDING"
    /\ \A p \in Products :
         product[p].quantity = MaxStock - OrderedQuantity(orders[1].items, p)

\* createOrder and cancelOrder calls alone, one at a time
SpecOrdersSeq == InitHeld /\ [][NextOrders]_vars

RECURSIVE HeldQuantity(_, _)
\* the units of p in the items of the orders that are not CANCELLED
HeldQuantity(o, p) ==
    IF o = <<>> THEN 0
    ELSE (IF Head(o).status # "CANCELLED" THEN OrderedQuantity(Head(o).items, p) ELSE 0)
         + HeldQuantity(Tail(o), p)

\* C25: stock conservation: after any sequence of createOrder and cancelOrder
\* calls that do not overlap, with no catalog write and no updateOrderStatus,
\* the stock of every product plus the quantities of it in the items of all
\* orders whose status is not CANCELLED equals its initial stock.
C25_StockIsConserved ==
    \A p \in Products : product[p].quantity + HeldQuantity(orders, p) = MaxStock

\* an order was cancelled and its units returned while another order holds
\* units of the same product
C25_Witness ==
    /\ Len(orders) = 2
    /\ response.op = "cancelOrder"
    /\ response.res.code = 200
    /\ \E i, j \in 1..2, p \in Products :
         /\ orders[i].status = "CANCELLED"
         /\ orders[j].status = "PENDING"
         /\ OrderedQuantity(orders[i].items, p) > 0
         /\ OrderedQuantity(orders[j].items, p) > 0

----------------------------------------------------------------------------
(* C26 *)

\* C26: createOrder answers 'Some products not found or inactive' only when
\* at least one requested product id is missing from the catalog or inactive,
\* and the error list it returns is then not empty; so a request whose items
\* all name existing active products, one that names the same product in two
\* items included, is never rejected with that error.
C26_NotFoundOnlyForUnresolvedIds ==
    [][(Answered /\ response'.op = "createOrder"
          /\ response'.res.message = "Some products not found or inactive")
       => /\ UnresolvedIds(response'.request.body.items) # {}
          /\ response'.res.errors # <<>>]_vars

----------------------------------------------------------------------------
(* C27 *)

\* C27: under every interleaving of a cancelOrder and an updateOrderStatus on
\* one order, the inventory of an order has been restored only if its stored
\* status is CANCELLED: an updateOrderStatus that completes after a cancelOrder
\* of the same order has succeeded, and so has added the item quantities back
\* to the stock, leaves the order CANCELLED.
C27_RestoredOnlyIfCancelled ==
    [][\A r \in Slots :
         (/\ Completed(r, "updateOrderStatus")
          /\ response.op = "cancelOrder"
          /\ response.res.code = 200
          /\ response.request.id = req[r].request.id)
         => orders'[req[r].request.id].status = "CANCELLED"]_vars

----------------------------------------------------------------------------
(* C28 *)

\* the stored orders, had order id been in status s
WithStatus(id, s) == [orders EXCEPT ![id].status = s]

\* C28: cancelOrder checks existence, then ownership, then the status.  An
\* unknown order id is answered 404 'Order not found' whoever calls.  For a
\* stored order, a caller who is not its owner is answered at once with 403
\* 'Not authorized to cancel this order', and that is the answer the same call
\* gets for every other status the order could have: the response, like the
\* orders, the stock and the mails, which the step leaves alone, tells the
\* caller nothing about the status.  Only the owner is ever told 'Cannot cancel
\* order with status'.
C28_StatusHiddenFromOthers ==
    [][/\ (Arrived /\ ArrivedOp = "cancelOrder"
             /\ ArrivedRequest.id \notin 1..Len(orders))
          => /\ Answered
             /\ response'.res = Response(404, "Order not found", <<>>)
       /\ (Arrived /\ ArrivedOp = "cancelOrder"
             /\ ArrivedRequest.id \in 1..Len(orders)
             /\ orders[ArrivedRequest.id].userId # ArrivedRequest.userId)
          => /\ Answered
             /\ response'.res = Response(403, "Not authorized to cancel this order", <<>>)
             /\ \A s \in Statuses :
                  response'.res = cancelOrderCheck(WithStatus(ArrivedRequest.id, s),
                                                   ArrivedRequest.id,
                                                   ArrivedRequest.userId)
             /\ orders' = orders
             /\ product' = product
             /\ outbox' = outbox
       /\ (Answered /\ response'.op = "cancelOrder"
             /\ response'.res.message = "Cannot cancel order with status")
          => /\ response'.request.id \in 1..Len(orders)
             /\ orders[response'.request.id].userId = response'.request.userId]_vars

\* a caller who does not own the DELIVERED order, which nobody could cancel,
\* was told that they are not authorized
C28_Witness ==
    /\ response.op = "cancelOrder"
    /\ response.res = Response(403, "Not authorized to cancel this order", <<>>)
    /\ orders[response.request.id].userId # response.request.userId
    /\ orders[response.request.id].status = "DELIVERED"

====
